---- MODULE Spec2Model ----
(***************************************************************************)
(* raspi-live: the pipeline orchestrator that wires a capture process, a   *)
(* mux process and a static file server into one lifecycle.                *)
(*                                                                         *)
(* Three pieces of the repository are modelled, each under its own         *)
(* specification over the same variables:                                  *)
(*   Spec       streamDash, osStopper and mux of cmd/raspilive/dash.go     *)
(*   SpecVideo  MuxAndServe and mux of the video package (WaitGroup fan-in)*)
(*   SpecMuxer  mpegdash.Muxer: Start's argument list, and Wait            *)
(* FairSpec is Spec with the scheduler's fairness, for liveness.           *)
(***************************************************************************)
EXTENDS Integers, Sequences, FiniteSets, TLC

VARIABLES
    pc,          \* position of every goroutine
    exit,        \* "running", "returned" (the entry point returned), "fatal" (log.Fatal), "panic"
    fatal,       \* message of the log.Fatal call that ended the process, or "none"
    stopRecv,    \* senders whose message main received from the stop channel, in order
    notified,    \* signal.Notify has registered osStop
    osStop,      \* number of signals buffered in osStop (capacity 1)
    signals,     \* number of interrupts the OS has delivered so far
    dirValid,    \* the server's directory exists
    srvState,    \* "idle", "serving", "closed" (shut down), "failed" (stopped serving on an error)
    srvRet,      \* what ListenAndServe returned, "none" while it has not
    proc,        \* state of the capture and mux OS processes
    status,      \* exit status of each process, "none" while it has not exited
    muxRet,      \* what muxer.Mux returned
    startRet,    \* what raspiStream.Start returned
    waitRet,     \* what each process's Wait returned
    muxRes,      \* what the mux routine returned
    videoCloses, \* number of calls of raspiStream.Video.Close
    shutdowns,   \* deadlines of the calls of srv.Shutdown, in order
    wg,          \* counters of the two WaitGroups of the video package:
                 \* "outer" in MuxAndServe, "inner" in mux
    verr,        \* the err variable the video package's mux shares with its goroutines
    muxer,       \* fields of an mpegdash.Muxer: Directory and the numeric options
    cmd,         \* muxer.cmd: "nil", or the state of the command it points to:
                 \* "created" (not launched yet), "failed" (the launch failed),
                 \* "running", "exitOk" / "exitErr" (exited with status 0 / not 0,
                 \* not waited for), "waited"
    waitCmd,     \* the command the Wait call in progress holds: "none" (no call
                 \* in progress), "muxer.cmd" (the one muxer.cmd points to), or
                 \* the state of a command that a later Start has replaced
    args,        \* the argument list Start handed to execCommand
    cmdRet       \* what the call that returned in the last step returned, "none"
                 \* when no call returned in it

vars == <<pc, exit, fatal, stopRecv, notified, osStop, signals, dirValid, srvState,
          srvRet, proc, status, muxRet, startRet, waitRet, muxRes, videoCloses,
          shutdowns, wg, verr, muxer, cmd, waitCmd, args, cmdRet>>

orchVars  == <<stopRecv, notified, osStop, signals, videoCloses, shutdowns>>
srvVars   == <<dirValid, srvState, srvRet>>
procVars  == <<proc, status>>
routVars  == <<muxRet, startRet, waitRet, muxRes>>
wgVars    == <<wg, verr>>
muxerVars == <<muxer, cmd, waitCmd, args, cmdRet>>

(***************************************************************************)
(* Bounds and program constants.                                           *)
(***************************************************************************)
\* interrupts the OS delivers in one session
MaxSignals == 2

\* serverShutdownDeadline = 10 * time.Second, in seconds
serverShutdownDeadline == 10

\* capacity of osStop: make(chan os.Signal, 1)
OsStopCap == 1

Goroutines == {"main", "os", "srv", "mux", "wcap", "wmux"}
Procs      == {"cap", "mux"}
WaitGroups == {"outer", "inner"}

\* the error a process's Wait returns for an exit status
WaitErr(p, st) ==
    IF st = "nil" THEN "nil" ELSE p \o "_" \o st

Running == exit = "running"

\* log.Fatal().Msg(msg): zerolog logs and calls os.Exit(1)
LogFatal(msg) ==
    /\ exit' = "fatal"
    /\ fatal' = msg

(***************************************************************************)
(* The environment: the operating system and the two external processes.   *)
(***************************************************************************)
\* The exit statuses a running process can end with.  Once the video stream is
\* closed a process may also end with a non-zero "broken pipe" style status.
ExitStatuses ==
    IF videoCloses > 0 THEN {"nil", "crash", "pipe"} ELSE {"nil", "crash"}

\* a running capture or mux process exits
ProcExit(p) ==
    /\ Running
    /\ proc[p] = "running"
    /\ \E st \in ExitStatuses :
         /\ proc' = [proc EXCEPT ![p] = "exited"]
         /\ status' = [status EXCEPT ![p] = st]
    /\ UNCHANGED <<pc, exit, fatal, orchVars, srvVars, routVars, wgVars, muxerVars>>

\* the OS delivers an interrupt: signal.Notify's channel send never blocks, a
\* signal that finds osStop full is dropped
Interrupt ==
    /\ Running
    /\ notified
    /\ signals < MaxSignals
    /\ signals' = signals + 1
    /\ osStop' = IF osStop < OsStopCap THEN osStop + 1 ELSE osStop
    /\ UNCHANGED <<pc, exit, fatal, stopRecv, notified, videoCloses, shutdowns,
                   srvVars, procVars, routVars, wgVars, muxerVars>>

(***************************************************************************)
(* streamDash (cmd/raspilive/dash.go): the main goroutine.                 *)
(***************************************************************************)
Goto(g, l) == pc' = [pc EXCEPT ![g] = l]

\* newRaspiStream, newMuxer, newServer: raspivid.NewStream may fail, which is fatal
NewRaspiStream ==
    /\ Running
    /\ pc["main"] = "new"
    /\ \/ /\ Goto("main", "osStopper")
          /\ UNCHANGED <<exit, fatal>>
       \/ /\ LogFatal("Encountered an error streaming video from the Raspberry Pi Camera Module")
          /\ UNCHANGED pc
    /\ UNCHANGED <<orchVars, srvVars, procVars, routVars, wgVars, muxerVars>>

\* osStopper(stop): registers osStop with signal.Notify and starts the listener
OsStopper ==
    /\ Running
    /\ pc["main"] = "osStopper"
    /\ notified' = TRUE
    /\ pc' = [pc EXCEPT !["main"] = "goSrv", !["os"] = "recvOs"]
    /\ UNCHANGED <<exit, fatal, stopRecv, osStop, signals, videoCloses, shutdowns,
                   srvVars, procVars, routVars, wgVars, muxerVars>>

\* go func() { err := srv.ListenAndServe() ... }()
GoServe ==
    /\ Running
    /\ pc["main"] = "goSrv"
    /\ pc' = [pc EXCEPT !["main"] = "goMux", !["srv"] = "listen"]
    /\ UNCHANGED <<exit, fatal, orchVars, srvVars, procVars, routVars, wgVars, muxerVars>>

\* go func() { if err := mux(raspiStream, muxer) ... }()
GoMux ==
    /\ Running
    /\ pc["main"] = "goMux"
    /\ pc' = [pc EXCEPT !["main"] = "recv", !["mux"] = "Mux"]
    /\ UNCHANGED <<exit, fatal, orchVars, srvVars, procVars, routVars, wgVars, muxerVars>>

\* StopHandoff with main going straight to Shutdown, the stream left open
StopHandoff_SkipClose(g) ==
    /\ Running
    /\ pc[g] = "send"
    /\ pc["main"] = "recv"
    /\ pc' = [pc EXCEPT ![g] = "done", !["main"] = "shutdown"]
    /\ stopRecv' = Append(stopRecv, g)
    /\ UNCHANGED <<exit, fatal, notified, osStop, signals, videoCloses, shutdowns,
                   srvVars, procVars, routVars, wgVars, muxerVars>>

\* stop <- struct{}{} in goroutine g meets <-stop in main: stop is unbuffered,
\* so a send completes only together with the receive
StopHandoff(g) ==
    /\ Running
    /\ pc[g] = "send"
    /\ pc["main"] = "recv"
    /\ pc' = [pc EXCEPT ![g] = "done", !["main"] = "close"]
    /\ stopRecv' = Append(stopRecv, g)
    /\ UNCHANGED <<exit, fatal, notified, osStop, signals, videoCloses, shutdowns,
                   srvVars, procVars, routVars, wgVars, muxerVars>>

\* raspiStream.Video.Close()
VideoClose ==
    /\ Running
    /\ pc["main"] = "close"
    /\ videoCloses' = videoCloses + 1
    /\ Goto("main", "shutdown")
    /\ UNCHANGED <<exit, fatal, stopRecv, notified, osStop, signals, shutdowns,
                   srvVars, procVars, routVars, wgVars, muxerVars>>

\* SrvShutdown followed by another receive: after the call of Shutdown main
\* goes back to <-stop
SrvShutdown_Loop ==
    /\ Running
    /\ pc["main"] = "shutdown"
    /\ shutdowns' = Append(shutdowns, serverShutdownDeadline)
    /\ srvState' = IF srvState = "failed" THEN "failed" ELSE "closed"
    /\ Goto("main", "recv")
    /\ UNCHANGED <<exit, fatal, stopRecv, notified, osStop, signals, videoCloses,
                   dirValid, srvRet, procVars, routVars, wgVars, muxerVars>>

\* srv.Shutdown(serverShutdownDeadline) is called: the server stops accepting
SrvShutdown ==
    /\ Running
    /\ pc["main"] = "shutdown"
    /\ shutdowns' = Append(shutdowns, serverShutdownDeadline)
    /\ srvState' = IF srvState = "failed" THEN "failed" ELSE "closed"
    /\ Goto("main", "inShutdown")
    /\ UNCHANGED <<exit, fatal, stopRecv, notified, osStop, signals, videoCloses,
                   dirValid, srvRet, procVars, routVars, wgVars, muxerVars>>

\* StreamDashReturn as a loop over stop: main goes back to the receive
StreamDashReturn_Loop ==
    /\ Running
    /\ pc["main"] = "inShutdown"
    /\ Goto("main", "recv")
    /\ UNCHANGED <<exit, fatal, orchVars, srvVars, procVars, routVars, wgVars, muxerVars>>

\* Shutdown returns (by its deadline at the latest) and streamDash returns
StreamDashReturn ==
    /\ Running
    /\ pc["main"] = "inShutdown"
    /\ Goto("main", "returned")
    /\ exit' = "returned"
    /\ UNCHANGED <<fatal, orchVars, srvVars, procVars, routVars, wgVars, muxerVars>>

(***************************************************************************)
(* osStopper's goroutine.                                                  *)
(***************************************************************************)
\* <-osStop
OsRecv ==
    /\ Running
    /\ pc["os"] = "recvOs"
    /\ osStop > 0
    /\ osStop' = osStop - 1
    /\ Goto("os", "send")
    /\ UNCHANGED <<exit, fatal, stopRecv, notified, signals, videoCloses, shutdowns,
                   srvVars, procVars, routVars, wgVars, muxerVars>>

(***************************************************************************)
(* The server goroutine of streamDash, and server.Static as the            *)
(* specification describes it.                                             *)
(***************************************************************************)
\* srv.ListenAndServe() is called: an invalid directory is reported at once, a
\* server already shut down returns nil, a failing bind returns an error
ListenAndServe ==
    /\ Running
    /\ pc["srv"] = "listen"
    /\ \/ /\ ~dirValid
          /\ srvRet' = "ErrInvalidDirectory"
          /\ Goto("srv", "check")
          /\ UNCHANGED srvState
       \/ /\ dirValid
          /\ srvState = "closed"
          /\ srvRet' = "nil"
          /\ Goto("srv", "check")
          /\ UNCHANGED srvState
       \/ /\ dirValid
          /\ srvState = "idle"
          /\ \/ /\ srvState' = "serving"
                /\ Goto("srv", "serving")
                /\ UNCHANGED srvRet
             \/ /\ srvRet' = "ServeFailed"
                /\ Goto("srv", "check")
                /\ UNCHANGED srvState
    /\ UNCHANGED <<exit, fatal, dirValid, orchVars, procVars, routVars, wgVars, muxerVars>>

\* the serving server fails (its listener or its accept loop breaks): an event
\* of the environment, not a step of the goroutine blocked in ListenAndServe
ServeFail ==
    /\ Running
    /\ pc["srv"] = "serving"
    /\ srvState = "serving"
    /\ srvState' = "failed"
    /\ UNCHANGED <<pc, exit, fatal, dirValid, srvRet, orchVars, procVars, routVars, wgVars,
                   muxerVars>>

\* the blocked ListenAndServe returns: nil once Shutdown has closed the server,
\* an error once serving has failed; while the server serves it stays blocked
ServeReturn ==
    /\ Running
    /\ pc["srv"] = "serving"
    /\ \/ /\ srvState = "closed"
          /\ srvRet' = "nil"
       \/ /\ srvState = "failed"
          /\ srvRet' = "ServeFailed"
    /\ Goto("srv", "check")
    /\ UNCHANGED <<exit, fatal, dirValid, srvState, orchVars, procVars, routVars, wgVars,
                   muxerVars>>

\* ServeCheck without the fatal logs: whatever ListenAndServe returned, the
\* goroutine goes on to the send on stop
ServeCheck_NoFatal ==
    /\ Running
    /\ pc["srv"] = "check"
    /\ Goto("srv", "send")
    /\ UNCHANGED <<exit, fatal, orchVars, srvVars, procVars, routVars, wgVars, muxerVars>>

\* the two if statements after ListenAndServe, then the send on stop
ServeCheck ==
    /\ Running
    /\ pc["srv"] = "check"
    /\ \/ /\ srvRet = "ErrInvalidDirectory"
          /\ LogFatal("Directory does not exist")
          /\ UNCHANGED pc
       \/ /\ srvRet \notin {"nil", "ErrInvalidDirectory"}
          /\ LogFatal("Encountered an error serving video")
          /\ UNCHANGED pc
       \/ /\ srvRet = "nil"
          /\ Goto("srv", "send")
          /\ UNCHANGED <<exit, fatal>>
    /\ UNCHANGED <<orchVars, srvVars, procVars, routVars, wgVars, muxerVars>>

(***************************************************************************)
(* The mux routine.  mux of cmd/raspilive/dash.go, muxDash of the same     *)
(* file and mux of the video package all begin with the same two calls.    *)
(***************************************************************************)
\* MuxerMux without the return on an error: the routine goes on to Start
MuxerMux_IgnoreErr ==
    /\ Running
    /\ pc["mux"] = "Mux"
    /\ \/ /\ muxRet' = "nil"
          /\ proc' = [proc EXCEPT !["mux"] = "running"]
       \/ /\ muxRet' = "MuxStartFailed"
          /\ UNCHANGED proc
    /\ Goto("mux", "Start")
    /\ UNCHANGED <<exit, fatal, status, startRet, waitRet, muxRes, orchVars, srvVars,
                   wgVars, muxerVars>>

\* if err := muxer.Mux(raspiStream.Video); err != nil { return err }
\* Mux launches the mux process, or fails to.
MuxerMux ==
    /\ Running
    /\ pc["mux"] = "Mux"
    /\ \/ /\ muxRet' = "nil"
          /\ proc' = [proc EXCEPT !["mux"] = "running"]
          /\ Goto("mux", "Start")
          /\ UNCHANGED muxRes
       \/ /\ muxRet' = "MuxStartFailed"
          /\ muxRes' = "MuxStartFailed"
          /\ Goto("mux", "ret")
          /\ UNCHANGED proc
    /\ UNCHANGED <<exit, fatal, status, startRet, waitRet, orchVars, srvVars, wgVars,
                   muxerVars>>

\* RaspiStreamStart without the return on an error: the routine goes on to wait
RaspiStreamStart_IgnoreErr(next) ==
    /\ Running
    /\ pc["mux"] = "Start"
    /\ \/ /\ startRet' = "nil"
          /\ proc' = [proc EXCEPT !["cap"] = "running"]
       \/ /\ startRet' = "CaptureStartFailed"
          /\ UNCHANGED proc
    /\ Goto("mux", next)
    /\ UNCHANGED <<exit, fatal, status, muxRet, waitRet, muxRes, orchVars, srvVars,
                   wgVars, muxerVars>>

\* if err := raspiStream.Start(); err != nil { return err }
\* Start launches the capture process, or fails to; next is where the routine
\* goes on after a successful Start.
RaspiStreamStart(next) ==
    /\ Running
    /\ pc["mux"] = "Start"
    /\ \/ /\ startRet' = "nil"
          /\ proc' = [proc EXCEPT !["cap"] = "running"]
          /\ Goto("mux", next)
          /\ UNCHANGED muxRes
       \/ /\ startRet' = "CaptureStartFailed"
          /\ muxRes' = "CaptureStartFailed"
          /\ Goto("mux", "ret")
          /\ UNCHANGED proc
    /\ UNCHANGED <<exit, fatal, status, muxRet, waitRet, orchVars, srvVars, wgVars,
                   muxerVars>>

\* MuxerWait without the return on an error: the routine goes on to the
\* capture stream's Wait whatever muxer.Wait returned
MuxerWait_IgnoreErr ==
    /\ Running
    /\ pc["mux"] = "WaitMux"
    /\ proc["mux"] = "exited"
    /\ waitRet' = [waitRet EXCEPT !["mux"] = WaitErr("mux", status["mux"])]
    /\ Goto("mux", "WaitCap")
    /\ UNCHANGED <<exit, fatal, muxRet, startRet, muxRes, orchVars, srvVars, procVars,
                   wgVars, muxerVars>>

\* if err := muxer.Wait(); err != nil { return err }
\* Wait blocks until the mux process has exited.
MuxerWait ==
    /\ Running
    /\ pc["mux"] = "WaitMux"
    /\ proc["mux"] = "exited"
    /\ LET err == WaitErr("mux", status["mux"]) IN
         /\ waitRet' = [waitRet EXCEPT !["mux"] = err]
         /\ IF err /= "nil"
               THEN muxRes' = err /\ Goto("mux", "ret")
               ELSE UNCHANGED muxRes /\ Goto("mux", "WaitCap")
    /\ UNCHANGED <<exit, fatal, muxRet, startRet, orchVars, srvVars, procVars, wgVars,
                   muxerVars>>

\* if err := raspiStream.Wait(); err != nil { return err }; return nil
RaspiStreamWait ==
    /\ Running
    /\ pc["mux"] = "WaitCap"
    /\ proc["cap"] = "exited"
    /\ LET err == WaitErr("cap", status["cap"]) IN
         /\ waitRet' = [waitRet EXCEPT !["cap"] = err]
         /\ muxRes' = err
    /\ Goto("mux", "ret")
    /\ UNCHANGED <<exit, fatal, muxRet, startRet, orchVars, srvVars, procVars, wgVars,
                   muxerVars>>

\* streamDash's mux goroutine once mux has returned: log.Fatal on an error,
\* otherwise the send on stop
MuxCheck ==
    /\ Running
    /\ pc["mux"] = "ret"
    /\ \/ /\ muxRes /= "nil"
          /\ LogFatal("Encountered an error muxing video")
          /\ UNCHANGED pc
       \/ /\ muxRes = "nil"
          /\ Goto("mux", "send")
          /\ UNCHANGED <<exit, fatal>>
    /\ UNCHANGED <<orchVars, srvVars, procVars, routVars, wgVars, muxerVars>>

(***************************************************************************)
(* Initial states and the specification of streamDash.                     *)
(***************************************************************************)
\* a Muxer nobody has started, with every option unset
IdleMuxer ==
    [Directory |-> <<>>, Fps |-> 0, SegmentTime |-> 0, PlaylistSize |-> 0, StorageSize |-> 0]

InitCommon ==
    /\ exit = "running"
    /\ fatal = "none"
    /\ stopRecv = <<>>
    /\ notified = FALSE
    /\ osStop = 0
    /\ signals = 0
    /\ srvState = "idle"
    /\ srvRet = "none"
    /\ proc = [p \in Procs |-> "unstarted"]
    /\ status = [p \in Procs |-> "none"]
    /\ muxRet = "none"
    /\ startRet = "none"
    /\ waitRet = [p \in Procs |-> "none"]
    /\ muxRes = "none"
    /\ videoCloses = 0
    /\ shutdowns = <<>>
    /\ wg = [w \in WaitGroups |-> 0]
    /\ verr = "nil"
    /\ cmd = "nil"
    /\ waitCmd = "none"
    /\ args = <<>>
    /\ cmdRet = "none"

\* streamDash is entered: only main runs, the directory exists or does not
Init ==
    /\ InitCommon
    /\ pc = [g \in Goroutines |-> IF g = "main" THEN "new" ELSE "unspawned"]
    /\ dirValid \in BOOLEAN
    /\ muxer = IdleMuxer

MainStep ==
    \/ NewRaspiStream
    \/ OsStopper
    \/ GoServe
    \/ GoMux
    \/ VideoClose
    \/ SrvShutdown
    \/ StreamDashReturn

SrvStep ==
    \/ ListenAndServe
    \/ ServeReturn
    \/ ServeCheck

MuxStep ==
    \/ MuxerMux
    \/ RaspiStreamStart("WaitMux")
    \/ MuxerWait
    \/ RaspiStreamWait
    \/ MuxCheck

Handoff == \E g \in {"os", "srv", "mux"} : StopHandoff(g)

Env ==
    \/ Interrupt
    \/ ServeFail
    \/ \E p \in Procs : ProcExit(p)

Next ==
    \/ MainStep
    \/ OsRecv
    \/ SrvStep
    \/ MuxStep
    \/ Handoff
    \/ Env

Spec == Init /\ [][Next]_vars

\* The Go scheduler runs every goroutine that can take a step; the exits of the
\* external processes, the failure of a serving server and the arrival of
\* interrupts are under no obligation, so a session in which nothing fails and
\* nobody interrupts goes on forever.
FairSpec ==
    /\ Spec
    /\ WF_vars(MainStep)
    /\ WF_vars(OsRecv)
    /\ WF_vars(SrvStep)
    /\ WF_vars(MuxStep)
    /\ WF_vars(Handoff)

(***************************************************************************)
(* MuxAndServe and mux of the video package.  The server is a net/http     *)
(* Server, whose ListenAndServe always returns a non-nil error, and         *)
(* log.Fatal is the standard library's: it prints its argument, nil too,   *)
(* and calls os.Exit(1).  The wg.Done() calls that follow log.Fatal in      *)
(* MuxAndServe are never reached.                                          *)
(***************************************************************************)
\* var wg sync.WaitGroup; wg.Add(1), in MuxAndServe (by main) and in mux
WgAdd(g, w, next) ==
    /\ Running
    /\ pc[g] = "Add"
    /\ wg' = [wg EXCEPT ![w] = wg[w] + 1]
    /\ Goto(g, next)
    /\ UNCHANGED <<exit, fatal, verr, orchVars, srvVars, procVars, routVars, muxerVars>>

\* MuxAndServe's two go statements
MuxAndServeGoServe ==
    /\ Running
    /\ pc["main"] = "vGoSrv"
    /\ pc' = [pc EXCEPT !["main"] = "vGoMux", !["srv"] = "listen"]
    /\ UNCHANGED <<exit, fatal, orchVars, srvVars, procVars, routVars, wgVars, muxerVars>>

MuxAndServeGoMux ==
    /\ Running
    /\ pc["main"] = "vGoMux"
    /\ pc' = [pc EXCEPT !["main"] = "WgWait", !["mux"] = "Mux"]
    /\ UNCHANGED <<exit, fatal, orchVars, srvVars, procVars, routVars, wgVars, muxerVars>>

\* wg.Wait() returns once the counter is zero: mux then returns nil, whatever
\* the watchers stored in err; MuxAndServe then returns to its caller
WgWait(g, w) ==
    /\ Running
    /\ pc[g] = "WgWait"
    /\ wg[w] = 0
    /\ IF g = "mux"
          THEN /\ muxRes' = "nil"
               /\ Goto("mux", "ret")
               /\ UNCHANGED exit
          ELSE /\ exit' = "returned"
               /\ Goto(g, "returned")
               /\ UNCHANGED muxRes
    /\ UNCHANGED <<fatal, muxRet, startRet, waitRet, orchVars, srvVars, procVars, wgVars,
                   muxerVars>>

\* server.ListenAndServe() of net/http: serves, or fails to listen
HttpListenAndServe ==
    /\ Running
    /\ pc["srv"] = "listen"
    /\ \/ /\ srvState' = "serving"
          /\ Goto("srv", "serving")
          /\ UNCHANGED srvRet
       \/ /\ srvRet' = "ServeFailed"
          /\ Goto("srv", "check")
          /\ UNCHANGED srvState
    /\ UNCHANGED <<exit, fatal, dirValid, orchVars, procVars, routVars, wgVars, muxerVars>>

\* the blocked ListenAndServe returns its error once serving has failed
HttpServeReturn ==
    /\ Running
    /\ pc["srv"] = "serving"
    /\ srvState = "failed"
    /\ srvRet' = "ServeFailed"
    /\ Goto("srv", "check")
    /\ UNCHANGED <<exit, fatal, dirValid, srvState, orchVars, procVars, routVars, wgVars,
                   muxerVars>>

\* log.Fatal(server.ListenAndServe())
MuxAndServeSrvFatal ==
    /\ Running
    /\ pc["srv"] = "check"
    /\ LogFatal(srvRet)
    /\ UNCHANGED <<pc, orchVars, srvVars, procVars, routVars, wgVars, muxerVars>>

\* log.Fatal(mux(raspiStream, muxer))
MuxAndServeMuxFatal ==
    /\ Running
    /\ pc["mux"] = "ret"
    /\ LogFatal(muxRes)
    /\ UNCHANGED <<pc, orchVars, srvVars, procVars, routVars, wgVars, muxerVars>>

\* mux's two go statements
MuxGoWaitCap ==
    /\ Running
    /\ pc["mux"] = "GoCap"
    /\ pc' = [pc EXCEPT !["mux"] = "GoMux", !["wcap"] = "Wait"]
    /\ UNCHANGED <<exit, fatal, orchVars, srvVars, procVars, routVars, wgVars, muxerVars>>

MuxGoWaitMux ==
    /\ Running
    /\ pc["mux"] = "GoMux"
    /\ pc' = [pc EXCEPT !["mux"] = "WgWait", !["wmux"] = "Wait"]
    /\ UNCHANGED <<exit, fatal, orchVars, srvVars, procVars, routVars, wgVars, muxerVars>>

\* the process a watcher goroutine of mux waits for
Watched(g) == IF g = "wcap" THEN "cap" ELSE "mux"
Other(g) == IF g = "wcap" THEN "wmux" ELSE "wcap"

\* What a watcher's assignment can leave in err.  The two watchers assign err
\* with no synchronisation between them: once the other has assigned too, the
\* two-word interface value holds either error or a mix of both.
ErrAfterWrite(g, e) ==
    IF pc[Other(g)] \in {"Done", "done"}
       THEN {e, waitRet[Watched(Other(g))], "torn"}
       ELSE {e}

\* err = raspiStream.Wait() and err = muxer.Wait() in mux's goroutines
WatcherWait(g) ==
    /\ Running
    /\ pc[g] = "Wait"
    /\ proc[Watched(g)] = "exited"
    /\ LET e == WaitErr(Watched(g), status[Watched(g)]) IN
         /\ waitRet' = [waitRet EXCEPT ![Watched(g)] = e]
         /\ verr' \in ErrAfterWrite(g, e)
    /\ Goto(g, "Done")
    /\ UNCHANGED <<exit, fatal, wg, muxRet, startRet, muxRes, orchVars, srvVars,
                   procVars, muxerVars>>

\* wg.Done(): a counter that would become negative panics
WgDone(g, w) ==
    /\ Running
    /\ pc[g] = "Done"
    /\ wg' = [wg EXCEPT ![w] = wg[w] - 1]
    /\ Goto(g, "done")
    /\ IF wg[w] - 1 < 0
          THEN exit' = "panic" /\ fatal' = "sync: negative WaitGroup counter"
          ELSE UNCHANGED <<exit, fatal>>
    /\ UNCHANGED <<verr, orchVars, srvVars, procVars, routVars, muxerVars>>

\* MuxAndServe is entered
InitVideo ==
    /\ InitCommon
    /\ pc = [g \in Goroutines |-> IF g = "main" THEN "Add" ELSE "unspawned"]
    /\ dirValid = TRUE
    /\ muxer = IdleMuxer

VideoMainStep ==
    \/ WgAdd("main", "outer", "vGoSrv")
    \/ MuxAndServeGoServe
    \/ MuxAndServeGoMux

VideoSrvStep ==
    \/ HttpListenAndServe
    \/ HttpServeReturn
    \/ MuxAndServeSrvFatal

VideoMuxStep ==
    \/ MuxerMux
    \/ RaspiStreamStart("Add")
    \/ WgAdd("mux", "inner", "GoCap")
    \/ MuxGoWaitCap
    \/ MuxGoWaitMux
    \/ MuxAndServeMuxFatal

VideoWait ==
    \/ WgWait("main", "outer")
    \/ WgWait("mux", "inner")

VideoWatcherStep ==
    \E g \in {"wcap", "wmux"} :
        \/ WatcherWait(g)
        \/ WgDone(g, "inner")

NextVideo ==
    \/ VideoMainStep
    \/ VideoSrvStep
    \/ VideoMuxStep
    \/ VideoWait
    \/ VideoWatcherStep
    \/ ServeFail
    \/ \E p \in Procs : ProcExit(p)

SpecVideo == InitVideo /\ [][NextVideo]_vars

(***************************************************************************)
(* mpegdash.Muxer (internal/ffmpeg/mpegdash/mpegdash.go).                  *)
(*                                                                         *)
(* A string is a sequence of symbols.  The symbols "/", ".", "-" and the   *)
(* decimal digits are the characters the code tells apart; any other       *)
(* symbol stands for a run of characters that are none of these.           *)
(***************************************************************************)
\* the largest option value tried
MaxOpt == 10

\* values of Fps, SegmentTime, PlaylistSize and StorageSize
OptValues == {-1, 0, 1, MaxOpt \div 2, MaxOpt}

\* values of Directory: "", "camera", "/srv/camera/", "../camera", "camera/..", "/"
Directories ==
    { <<>>,
      <<"camera">>,
      <<"/", "srv", "/", "camera", "/">>,
      <<".", ".", "/", "camera">>,
      <<"camera", "/", ".", ".">>,
      <<"/">> }

Digits == <<"0", "1", "2", "3", "4", "5", "6", "7", "8", "9">>

\* strconv.Itoa: the decimal digits of n, after a "-" when n is negative
RECURSIVE Itoa(_)
Itoa(n) ==
    IF n < 0 THEN <<"-">> \o Itoa(-n)
    ELSE IF n < 10 THEN <<Digits[n + 1]>>
    ELSE Itoa(n \div 10) \o <<Digits[(n % 10) + 1]>>

\* path.Clean's step back over the last element of out, for a ".."
RECURSIVE BackTo(_, _, _)
BackTo(out, w, dotdot) ==
    IF w > dotdot /\ out[w + 1] /= "/" THEN BackTo(out, w - 1, dotdot) ELSE w

\* the index after the path element that starts at r
RECURSIVE ElemEnd(_, _)
ElemEnd(path, r) ==
    IF r <= Len(path) /\ path[r] /= "/" THEN ElemEnd(path, r + 1) ELSE r

\* the loop of path.Clean: r is the next index to read, out the buffer written
\* so far, dotdot the length of out that ".." may not go back over
RECURSIVE CleanLoop(_, _, _, _)
CleanLoop(path, r, out, dotdot) ==
    LET n == Len(path)
        rooted == path[1] = "/"
    IN  IF r > n THEN out
        ELSE IF path[r] = "/" THEN CleanLoop(path, r + 1, out, dotdot)
        ELSE IF path[r] = "." /\ (r = n \/ path[r + 1] = "/")
            THEN CleanLoop(path, r + 1, out, dotdot)
        ELSE IF path[r] = "." /\ path[r + 1] = "." /\ (r + 1 = n \/ path[r + 2] = "/")
            THEN IF Len(out) > dotdot
                    THEN CleanLoop(path, r + 2,
                                   SubSeq(out, 1, BackTo(out, Len(out) - 1, dotdot)), dotdot)
                 ELSE IF ~rooted
                    THEN LET o == (IF Len(out) > 0 THEN out \o <<"/">> ELSE out) \o <<".", ".">>
                         IN  CleanLoop(path, r + 2, o, Len(o))
                 ELSE CleanLoop(path, r + 2, out, dotdot)
        ELSE LET o == IF (rooted /\ Len(out) /= 1) \/ (~rooted /\ Len(out) /= 0)
                         THEN out \o <<"/">> ELSE out
                 e == ElemEnd(path, r)
             IN  CleanLoop(path, e, o \o SubSeq(path, r, e - 1), dotdot)

\* path.Clean
PathClean(path) ==
    IF path = <<>> THEN <<".">>
    ELSE LET out == IF path[1] = "/" THEN CleanLoop(path, 2, <<"/">>, 1)
                                     ELSE CleanLoop(path, 1, <<>>, 0)
         IN  IF out = <<>> THEN <<".">> ELSE out

\* path.Join of two elements: empty elements are left out, the rest joined by
\* "/" and cleaned
PathJoin(a, b) ==
    IF a = <<>> /\ b = <<>> THEN <<>>
    ELSE IF a = <<>> THEN PathClean(b)
    ELSE IF b = <<>> THEN PathClean(a)
    ELSE PathClean(a \o <<"/">> \o b)

ManifestName == <<"livestream", ".", "mpd">>

\* the arguments Start passes whatever the options
BaseArgs ==
    << <<"-codec">>, <<"copy">>,
       <<"-f">>, <<"dash">>,
       <<"-re">>,
       <<"-an">>,
       <<"-init_seg_name">>, <<"init", ".", "m4s">>,
       <<"-media_seg_name">>, <<"$Time$", "-", "$Number$", ".", "m4s">> >>

\* if v != 0 { args = append(args, flag, strconv.Itoa(v)) }
OptArgs(flag, v) ==
    IF v /= 0 THEN << <<flag>>, Itoa(v) >> ELSE <<>>

\* MuxerArgs with every option forwarded, the unset ones as a literal 0
MuxerArgs_ForwardZero(m) ==
    BaseArgs
        \o << <<"-r">>, Itoa(m.Fps) >>
        \o << <<"-seg_duration">>, Itoa(m.SegmentTime) >>
        \o << <<"-window_size">>, Itoa(m.PlaylistSize) >>
        \o << <<"-extra_window_size">>, Itoa(m.StorageSize) >>
        \o << PathJoin(m.Directory, ManifestName) >>

\* the argument list Start builds for muxer m
MuxerArgs(m) ==
    BaseArgs
        \o OptArgs("-r", m.Fps)
        \o OptArgs("-seg_duration", m.SegmentTime)
        \o OptArgs("-window_size", m.PlaylistSize)
        \o OptArgs("-extra_window_size", m.StorageSize)
        \o << PathJoin(m.Directory, ManifestName) >>

\* MuxerStart without the assignment of muxer.cmd: the arguments are built and
\* muxer.cmd stays what it was
MuxerStart_NoCmd ==
    /\ cmd /= "created"
    /\ args' = MuxerArgs(muxer)
    /\ cmdRet' = "none"
    /\ UNCHANGED <<pc, exit, fatal, muxer, cmd, waitCmd, orchVars, srvVars, procVars,
                   routVars, wgVars>>

\* muxer.Start(video) up to muxer.cmd.Stdin = video: builds the arguments and
\* points muxer.cmd to a new command, not launched yet.  A Wait call in
\* progress keeps the command it read.  One Start call runs at a time.
MuxerStart ==
    /\ cmd /= "created"
    /\ args' = MuxerArgs(muxer)
    /\ cmd' = "created"
    /\ waitCmd' = IF waitCmd = "muxer.cmd" THEN cmd ELSE waitCmd
    /\ cmdRet' = "none"
    /\ UNCHANGED <<pc, exit, fatal, muxer, orchVars, srvVars, procVars, routVars, wgVars>>

\* return muxer.cmd.Start(): the command is launched, or fails to launch
MuxerStartReturn ==
    /\ cmd = "created"
    /\ \/ cmd' = "running" /\ cmdRet' = "nil"
       \/ cmd' = "failed" /\ cmdRet' = "StartFailed"
    /\ UNCHANGED <<pc, exit, fatal, muxer, waitCmd, args, orchVars, srvVars, procVars,
                   routVars, wgVars>>

\* a running ffmpeg process exits, with status 0 or not: the one muxer.cmd
\* points to, or the replaced one a Wait call still holds
CmdExit ==
    /\ \/ /\ cmd = "running"
          /\ cmd' \in {"exitOk", "exitErr"}
          /\ UNCHANGED waitCmd
       \/ /\ waitCmd = "running"
          /\ waitCmd' \in {"exitOk", "exitErr"}
          /\ UNCHANGED cmd
    /\ cmdRet' = "none"
    /\ UNCHANGED <<pc, exit, fatal, muxer, args, orchVars, srvVars, procVars, routVars,
                   wgVars>>

\* muxer.Wait() is called: the "not started" error at once while muxer.cmd is
\* nil, otherwise the call reads muxer.cmd and enters cmd.Wait().  One Wait call
\* runs at a time.
MuxerWaitCall ==
    /\ waitCmd = "none"
    /\ \/ /\ cmd = "nil"
          /\ cmdRet' = "ffmpeg mpegdash: not started"
          /\ UNCHANGED waitCmd
       \/ /\ cmd /= "nil"
          /\ waitCmd' = "muxer.cmd"
          /\ cmdRet' = "none"
    /\ UNCHANGED <<pc, exit, fatal, muxer, cmd, args, orchVars, srvVars, procVars,
                   routVars, wgVars>>

\* the state of the command the Wait call in progress holds
WaitCmdState == IF waitCmd = "muxer.cmd" THEN cmd ELSE waitCmd

\* what cmd.Wait() of os/exec returns for a command in state st
CmdWaitErr(st) ==
    CASE st \in {"created", "failed"} -> "exec: not started"
      [] st = "waited"                -> "exec: Wait was already called"
      [] st = "exitOk"                -> "nil"
      [] st = "exitErr"               -> "ExitError"

\* return muxer.cmd.Wait(): blocked while the command runs, it returns the exit
\* status once the process has exited, and os/exec's own error at once for a
\* command that was not launched or was waited for already
MuxerWaitReturn ==
    /\ waitCmd /= "none"
    /\ WaitCmdState /= "running"
    /\ cmdRet' = CmdWaitErr(WaitCmdState)
    /\ cmd' = IF waitCmd = "muxer.cmd" /\ cmd \in {"exitOk", "exitErr"} THEN "waited" ELSE cmd
    /\ waitCmd' = "none"
    /\ UNCHANGED <<pc, exit, fatal, muxer, args, orchVars, srvVars, procVars, routVars,
                   wgVars>>

\* a Muxer with any directory and options, not started
InitMuxer ==
    /\ InitCommon
    /\ pc = [g \in Goroutines |-> "unspawned"]
    /\ dirValid = TRUE
    /\ muxer \in [Directory : Directories, Fps : OptValues, SegmentTime : OptValues,
                  PlaylistSize : OptValues, StorageSize : OptValues]

NextMuxer ==
    \/ MuxerStart
    \/ MuxerStartReturn
    \/ CmdExit
    \/ MuxerWaitCall
    \/ MuxerWaitReturn

SpecMuxer == InitMuxer /\ [][NextMuxer]_vars

(***************************************************************************)
(* Properties of streamDash and its mux routine.                           *)
(***************************************************************************)
IsErr(r) == r \notin {"none", "nil"}

\* the watchers whose trigger has fired: they reached their send on stop
Fired == {g \in {"os", "srv", "mux"} : pc[g] \in {"send", "done"}}

\* no component failed on its own: no process crashed, the server did not fail
NoOwnFailure ==
    /\ \A p \in Procs : status[p] /= "crash"
    /\ srvState /= "failed"
    /\ ~IsErr(srvRet)

\* C1: capture Start is invoked only after muxer.Mux has returned nil; when Mux
\* returns an error, Start is never invoked, the capture process is never
\* launched and the routine returns that very error.
C1_MuxBeforeStart ==
    /\ startRet /= "none" => muxRet = "nil"
    /\ proc["cap"] /= "unstarted" => muxRet = "nil"
    /\ IsErr(muxRet) =>
         /\ startRet = "none"
         /\ proc["cap"] = "unstarted"
         /\ muxRes = muxRet

\* Start has been invoked, after a Mux that returned nil
C1_Witness == muxRet = "nil" /\ startRet /= "none"

\* C2: when two or more triggers have fired, one shutdown sequence runs: main
\* receives one message, the stream is closed at most once and Shutdown is called
\* at most once, and exactly once each when streamDash has returned.
C2_SingleFire ==
    Cardinality(Fired) >= 2 =>
        /\ Len(stopRecv) <= 1
        /\ videoCloses <= 1
        /\ Len(shutdowns) <= 1
        /\ exit = "returned" => videoCloses = 1 /\ Len(shutdowns) = 1

\* streamDash has returned after one watcher was received and with another one
\* still at its send
C2_Witness ==
    /\ exit = "returned"
    /\ \E g \in Fired : pc[g] = "done"
    /\ \E g \in Fired : pc[g] = "send"

\* a component failed while running: a Wait returned an error, or the server
\* failed while serving
RuntimeFailure ==
    \/ \E p \in Procs : IsErr(waitRet[p])
    \/ srvRet = "ServeFailed" /\ srvState = "failed"

\* C3: when the session has ended after a runtime failure, the stream has been
\* closed and Shutdown has been called.
C3_FailureShutsDown ==
    (exit /= "running" /\ RuntimeFailure) =>
        (videoCloses >= 1 /\ Len(shutdowns) >= 1)

\* capture and mux run, the server serves, and an interrupt has arrived that
\* nobody has received yet
ScenarioB ==
    /\ Running
    /\ \A p \in Procs : proc[p] = "running"
    /\ srvState = "serving"
    /\ osStop > 0
    /\ stopRecv = <<>>

\* C4: from the arrival of an interrupt while capture, mux and server run, no
\* watcher ever ends the process with a fatal error, unless a component fails
\* on its own.
C4_InterruptEndsCleanly ==
    [](ScenarioB => [](exit = "fatal" => ~NoOwnFailure))

\* C5 as stated: when capture Start has failed, neither the server's serve loop
\* nor the mux process has been started.
C5_NothingStarted ==
    startRet = "CaptureStartFailed" =>
        /\ proc["mux"] = "unstarted"
        /\ pc["srv"] \in {"unspawned", "listen"}

\* C5 as amended: when capture Start has failed, the mux routine has returned
\* that error without calling either Wait, its goroutine is left with the fatal
\* log only (it never sends on stop), the capture process was not launched and
\* the mux process was launched before, by a Mux that returned nil.
C5_StartFailure ==
    startRet = "CaptureStartFailed" =>
        /\ muxRes = "CaptureStartFailed"
        /\ pc["mux"] = "ret"
        /\ \A p \in Procs : waitRet[p] = "none"
        /\ proc["cap"] = "unstarted"
        /\ muxRet = "nil"
        /\ proc["mux"] /= "unstarted"
        /\ exit = "fatal" /\ stopRecv = <<>> => videoCloses = 0 /\ shutdowns = <<>>

\* the startup failure has been reported by the mux goroutine's log.Fatal
C5_Witness ==
    /\ startRet = "CaptureStartFailed"
    /\ exit = "fatal"
    /\ fatal = "Encountered an error muxing video"

\* C6: Shutdown is called only after the stream has been closed, always with the
\* deadline of 10 seconds, and before a message is received from stop the stream
\* is not closed and Shutdown is not called.
C6_CloseThenShutdown ==
    /\ Len(shutdowns) > 0 => videoCloses > 0
    /\ \A i \in DOMAIN shutdowns : shutdowns[i] = 10
    /\ stopRecv = <<>> => videoCloses = 0 /\ shutdowns = <<>>
    /\ pc["main"] = "close" => videoCloses = 0
    /\ pc["main"] = "shutdown" => shutdowns = <<>>

\* the stream has been closed and Shutdown called
C6_Witness == videoCloses = 1 /\ Len(shutdowns) = 1

\* C7: a capture process that has exited while the mux process still runs is
\* observed without the mux process exiting: the routine watching them can take
\* a step.
C7_CaptureExitObserved ==
    (/\ Running
     /\ proc["cap"] = "exited"
     /\ proc["mux"] = "running"
     /\ pc["mux"] \in {"WaitMux", "WaitCap"}) => ENABLED MuxStep

\* a trigger has occurred with capture and mux started
Triggered ==
    /\ Running
    /\ startRet = "nil"
    /\ \/ osStop > 0
       \/ \E g \in {"os", "srv", "mux"} : pc[g] = "send"

\* C10: once a trigger has occurred, streamDash eventually returns, unless a
\* component fails on its own.
C10_ShutdownCompletes ==
    Triggered ~> (exit = "returned" \/ ~NoOwnFailure)

\* C12 as stated: when the invalid directory has ended the session, neither
\* the mux process nor the capture process has been started.
C12_NothingRunning ==
    fatal = "Directory does not exist" => \A p \in Procs : proc[p] = "unstarted"

\* C12 as amended: an invalid directory is reported by ListenAndServe before
\* the server serves, the server goroutine is then left with the fatal log
\* "Directory does not exist" only (it never sends on stop), and a session
\* that this log ended before any stop message ran no shutdown sequence.
C12_InvalidDirFatal ==
    /\ srvRet = "ErrInvalidDirectory" =>
         /\ ~dirValid
         /\ srvState \notin {"serving", "failed"}
         /\ pc["srv"] = "check"
         /\ \A i \in DOMAIN stopRecv : stopRecv[i] /= "srv"
         /\ fatal /= "Encountered an error serving video"
    /\ fatal = "Directory does not exist" =>
         /\ srvRet = "ErrInvalidDirectory"
         /\ exit = "fatal"
         /\ stopRecv = <<>> => videoCloses = 0 /\ shutdowns = <<>>

\* the invalid directory has ended the session with capture and mux running
C12_Witness ==
    /\ fatal = "Directory does not exist"
    /\ \A p \in Procs : proc[p] = "running"

\* C14 as stated: once mux has returned with both processes started, both
\* muxer.Wait and the capture stream's Wait have returned.
C14_BothWaited ==
    (muxRes /= "none" /\ startRet = "nil") => \A p \in Procs : waitRet[p] /= "none"

\* C14 as amended: once mux has returned with both processes started,
\* muxer.Wait has returned; the capture stream's Wait has been called only
\* after muxer.Wait returned nil; an error of muxer.Wait is the result and
\* leaves the capture stream's Wait uncalled; otherwise the result is what
\* the capture stream's Wait returned.
C14_WaitsBeforeReturn ==
    /\ (muxRes /= "none" /\ startRet = "nil") =>
         /\ waitRet["mux"] /= "none"
         /\ IsErr(waitRet["mux"]) => waitRet["cap"] = "none" /\ muxRes = waitRet["mux"]
         /\ waitRet["mux"] = "nil" => waitRet["cap"] /= "none" /\ muxRes = waitRet["cap"]
    /\ waitRet["cap"] /= "none" => waitRet["mux"] = "nil"

\* mux has returned the error of muxer.Wait with the capture process started
\* and its Wait never called
C14_Witness ==
    /\ startRet = "nil"
    /\ IsErr(muxRes)
    /\ muxRes = waitRet["mux"]
    /\ waitRet["cap"] = "none"

\* C16 as stated: a watcher that fires after the first stop message completes
\* its trigger, so when streamDash has returned no watcher is left at its send
\* on stop.
C16_LaterTriggersComplete ==
    exit = "returned" => \A g \in {"os", "srv", "mux"} : pc[g] /= "send"

\* C16 as amended: at most one message is ever received from stop, the only
\* watcher whose send has completed is the one whose message was received, and
\* once a message has been received no send on stop can complete.
C16_LaterTriggersBlocked ==
    /\ Len(stopRecv) <= 1
    /\ \A g \in {"os", "srv", "mux"} :
         /\ pc[g] = "done" => stopRecv = <<g>>
         /\ Len(stopRecv) = 1 => ~ENABLED StopHandoff(g)

\* streamDash has returned after one stop message while another watcher is
\* still at its send on stop
C16_Witness ==
    /\ exit = "returned"
    /\ Len(stopRecv) = 1
    /\ \E g \in {"os", "srv", "mux"} : pc[g] = "send"

(***************************************************************************)
(* Properties of mpegdash.Muxer.                                           *)
(***************************************************************************)
\* the decimal number a string of digits, with or without a sign, stands for
DigitValue(c) == CHOOSE d \in 0..9 : Digits[d + 1] = c

RECURSIVE Atoi(_)
Atoi(str) ==
    IF str[1] = "-" THEN -Atoi(Tail(str))
    ELSE IF Len(str) = 1 THEN DigitValue(str[1])
    ELSE 10 * Atoi(SubSeq(str, 1, Len(str) - 1)) + DigitValue(str[Len(str)])

\* the positions of flag in an argument list
FlagAt(a, flag) == {i \in 1..Len(a) : a[i] = <<flag>>}

\* flag is passed exactly when v is not zero, then once and followed by v
OptionPassed(a, flag, v) ==
    /\ v = 0 <=> FlagAt(a, flag) = {}
    /\ v /= 0 =>
         /\ Cardinality(FlagAt(a, flag)) = 1
         /\ \A i \in FlagAt(a, flag) : i < Len(a) /\ Atoi(a[i + 1]) = v

\* livestream.mpd in directory d
ManifestIn(d) ==
    IF d = <<>> \/ PathClean(d) = <<".">> THEN ManifestName
    ELSE IF PathClean(d) = <<"/">> THEN <<"/">> \o ManifestName
    ELSE PathClean(d) \o <<"/">> \o ManifestName

\* C9: the argument list Start built passes each of -r, -seg_duration,
\* -window_size and -extra_window_size exactly when its option is not zero,
\* followed by the option's value, and ends with livestream.mpd in Directory.
C9_UnsetOptionsOmitted ==
    cmd /= "nil" =>
        /\ OptionPassed(args, "-r", muxer.Fps)
        /\ OptionPassed(args, "-seg_duration", muxer.SegmentTime)
        /\ OptionPassed(args, "-window_size", muxer.PlaylistSize)
        /\ OptionPassed(args, "-extra_window_size", muxer.StorageSize)
        /\ args[Len(args)] = ManifestIn(muxer.Directory)

\* Start has run with SegmentTime=0, PlaylistSize=5, StorageSize=10 and
\* Directory "camera": -window_size 5 and -extra_window_size 10 are passed
C9_Witness ==
    /\ cmd /= "nil"
    /\ muxer.SegmentTime = 0 /\ muxer.PlaylistSize = 5 /\ muxer.StorageSize = 10
    /\ muxer.Directory = <<"camera">>
    /\ FlagAt(args, "-seg_duration") = {}
    /\ \E i \in 1..(Len(args) - 1) : args[i] = <<"-window_size">> /\ args[i + 1] = <<"5">>
    /\ \E i \in 1..(Len(args) - 1) :
          args[i] = <<"-extra_window_size">> /\ args[i + 1] = <<"1", "0">>
    /\ args[Len(args)] = <<"camera", "/", "livestream", ".", "mpd">>

(***************************************************************************)
(* Properties of the video package's mux.                                  *)
(***************************************************************************)
\* C8: the mux routine returns nil only when no Wait that has returned by then
\* returned an error.
C8_ErrorsSurfaced ==
    [][(muxRes = "none" /\ muxRes' = "nil") =>
           \A p \in Procs : ~IsErr(waitRet'[p])]_vars

\* C11: MuxAndServe does not return while no process has ended, and when the
\* program has stopped after the capture or the mux process ended, with both
\* processes launched and the server not having failed, it has stopped by
\* MuxAndServe returning.
C11_ReturnsWhenProcessEnds ==
    /\ exit = "returned" => \E p \in Procs : proc[p] = "exited"
    /\ (/\ exit /= "running"
        /\ startRet = "nil"
        /\ \E p \in Procs : proc[p] = "exited"
        /\ ~IsErr(srvRet)) => exit = "returned"

\* C13: the counter of mux's WaitGroup is never negative and the process never
\* panics.
C13_NoNegativeCounter ==
    /\ wg["inner"] >= 0
    /\ exit /= "panic"

\* the error Muxer.Wait makes up itself
NotStarted == "ffmpeg mpegdash: not started"

\* Start has been called on the Muxer: it has built an argument list
StartCalled == args /= <<>>

\* C15: a Wait call can always be made and return at once on a Muxer on which
\* Start was never called; a call that returns the "not started" error was
\* made with muxer.cmd nil, returns in the step it is made in and changes
\* nothing of the Muxer; a call of Wait on a Muxer never started returns that
\* error; and once Start has been called, with the launch pending, succeeding
\* or failing, muxer.cmd is not nil, no call returns that error, and a Wait
\* call holds the command of muxer.cmd and returns what its Wait returns.
C15_NotStartedOnlyBeforeStart ==
    /\ [](~StartCalled => ENABLED MuxerWaitCall)
    /\ [][/\ cmdRet' = NotStarted =>
              /\ ~StartCalled
              /\ cmd = "nil" /\ cmd' = cmd /\ args' = args /\ muxer' = muxer
              /\ waitCmd = "none" /\ waitCmd' = "none"
          /\ (~StartCalled /\ args' = args) => cmdRet' = NotStarted
          /\ StartCalled =>
              /\ cmd /= "nil"
              /\ cmdRet' \in {"none", "nil", "StartFailed", "ExitError", "exec: not started",
                              "exec: Wait was already called"}
              /\ (waitCmd = "none" /\ waitCmd' /= "none") => waitCmd' = "muxer.cmd"
              /\ (waitCmd /= "none" /\ waitCmd' = "none") =>
                    cmdRet' = CmdWaitErr(WaitCmdState)]_vars

\* Wait has returned the "not started" error on a Muxer never started
C15_Witness ==
    /\ cmdRet = NotStarted
    /\ ~StartCalled

====
